---- MODULE Spec2Model ----
(***************************************************************************)
(* Conversation / question-tracking state machine of the Avika assessment  *)
(* chatbot: questionnaire.py (Question Bank, Answer Store, scoring),       *)
(* chatbot.py (QuestionnaireChatbot: extractor and dialogue manager) and   *)
(* app.py (handle_user_message, the direct answer selection).              *)
(*                                                                         *)
(* Representation of Python values:                                        *)
(*   None (Optional[str])          the string None                         *)
(*   current_answers[k] is None    the record NoneEntry                    *)
(*   a dict                        a function (<<>> is the empty dict)     *)
(*   last_pursued_question_ids     a sequence of ids; None is <<>> (the    *)
(*                                 code only tests its truth value and     *)
(*                                 never stores an empty list)             *)
(*   a float quotient n / d        the record [num |-> n, den |-> d]       *)
(*   a reply of the generative model: [raises |-> BOOLEAN, text |-> ...]   *)
(***************************************************************************)
EXTENDS Integers, Sequences, FiniteSets, TLC

VARIABLES
    current_answers,            \* Questionnaire.current_answers
    conversation_history,       \* QuestionnaireChatbot.conversation_history
    last_pursued_question_ids,  \* QuestionnaireChatbot.last_pursued_question_ids
    pending_followup,           \* QuestionnaireChatbot.pending_followup
    followup_attempts,          \* QuestionnaireChatbot.followup_attempts
    results,                    \* display_results: category -> score of the report
    last                        \* what the last operation did (its locals)

vars == <<current_answers, conversation_history, last_pursued_question_ids,
          pending_followup, followup_attempts, results, last>>

-----------------------------------------------------------------------------
(* Bounds of the model *)

MaxTurns == 2          \* submit_message turns of a session
MaxVagueTurns == 4     \* submit_message turns of a session of vague replies
MaxUserAnswers == 1    \* user-selected answers held at a time

-----------------------------------------------------------------------------
(* questionnaire.py *)

None == "~None~"

Letters == {"A", "B", "C", "D"}

Category == {"APPEARANCE_AWARENESS", "ATTITUDE_ENGAGEMENT",
             "BEHAVIOR_PERFORMANCE", "SOMATIC_COMPLAINTS"}

questions ==
    << [id |-> 1,  category |-> "APPEARANCE_AWARENESS"],
       [id |-> 2,  category |-> "APPEARANCE_AWARENESS"],
       [id |-> 3,  category |-> "APPEARANCE_AWARENESS"],
       [id |-> 4,  category |-> "ATTITUDE_ENGAGEMENT"],
       [id |-> 5,  category |-> "ATTITUDE_ENGAGEMENT"],
       [id |-> 6,  category |-> "ATTITUDE_ENGAGEMENT"],
       [id |-> 7,  category |-> "BEHAVIOR_PERFORMANCE"],
       [id |-> 8,  category |-> "BEHAVIOR_PERFORMANCE"],
       [id |-> 9,  category |-> "BEHAVIOR_PERFORMANCE"],
       [id |-> 10, category |-> "SOMATIC_COMPLAINTS"],
       [id |-> 11, category |-> "SOMATIC_COMPLAINTS"],
       [id |-> 12, category |-> "SOMATIC_COMPLAINTS"] >>

QuestionIds == {questions[i].id : i \in 1..Len(questions)}

NoneEntry == [answer |-> None, source |-> None]

Entry(letter, src) == [answer |-> letter, source |-> src]

\* d[k] = v on a dict
Put(d, k, v) == (k :> v) @@ d

\* d.get(k, default)
Get(d, k, default) == IF k \in DOMAIN d THEN d[k] ELSE default

\* the values of a dict, as a sequence
RECURSIVE Values(_)
Values(d) ==
    IF DOMAIN d = {} THEN <<>>
    ELSE LET k == CHOOSE x \in DOMAIN d : \A y \in DOMAIN d : x <= y
         IN  <<d[k]>> \o Values([x \in DOMAIN d \ {k} |-> d[x]])

\* ord(c) of an option letter
ord(c) == CASE c = "A" -> 65 [] c = "B" -> 66 [] c = "C" -> 67 [] c = "D" -> 68

get_unanswered_questions(ca) ==
    SelectSeq(questions, LAMBDA q : ca[q.id] = NoneEntry)

RECURSIVE ScoreLoop(_, _, _, _, _)
ScoreLoop(ca, qs, i, total_score, answered_count) ==
    IF i > Len(qs)
    THEN IF answered_count > 0
         THEN [num |-> total_score, den |-> answered_count]
         ELSE [num |-> 0, den |-> 1]
    ELSE LET answer_data == ca[qs[i].id] IN
         IF answer_data # NoneEntry
         THEN ScoreLoop(ca, qs, i + 1,
                        total_score + (ord("D") - ord(answer_data.answer) + 1),
                        answered_count + 1)
         ELSE ScoreLoop(ca, qs, i + 1, total_score, answered_count)

get_category_score_per_question(ca, category) ==
    LET category_questions == SelectSeq(questions, LAMBDA q : q.category = category)
        r == ScoreLoop(ca, category_questions, 1, 0, 0)
    IN  IF r.num = 0 THEN r ELSE [num |-> r.num, den |-> Len(category_questions)]

get_category_score(ca, category) ==
    LET category_questions == SelectSeq(questions, LAMBDA q : q.category = category)
    IN  IF Len(category_questions) = 0 THEN [num |-> 0, den |-> 1]
        ELSE ScoreLoop(ca, category_questions, 1, 0, 0)

RECURSIVE CountNotNone(_, _)
CountNotNone(vals, i) ==
    IF i > Len(vals) THEN 0
    ELSE (IF vals[i] # NoneEntry THEN 1 ELSE 0) + CountNotNone(vals, i + 1)

get_completion_percentage_bank(ca) ==
    [num |-> Len(SelectSeq(questions, LAMBDA q : ca[q.id] # NoneEntry)) * 100,
     den |-> Len(questions)]

get_completion_percentage(ca) ==
    [num |-> CountNotNone(Values(ca), 1) * 100, den |-> Len(questions)]

-----------------------------------------------------------------------------
(* chatbot.py: the external answer extractor *)

\* str.strip() on the reply texts of the model
strip(text) ==
    CASE text = " b\n" -> "b"
      [] text = " \n"  -> ""
      [] OTHER         -> text

\* str.upper() on the stripped reply texts
upper(text) ==
    CASE text = "b"         -> "B"
      [] text = "a"         -> "A"
      [] text = "None"      -> "NONE"
      [] text = "none"      -> "NONE"
      [] text = "A, mostly" -> "A, MOSTLY"
      [] OTHER              -> text

\* int(k) on the keys of a batch reply; for a key outside IntLiterals it
\* raises ValueError
IntLiterals == {"0", "1", "2", "3", "4", "5", "6", "7", "8", "9", "10", "11",
                "12", "13", "01"}

int(k) ==
    CASE k = "0" -> 0   [] k = "1" -> 1   [] k = "2" -> 2   [] k = "3" -> 3
      [] k = "4" -> 4   [] k = "5" -> 5   [] k = "6" -> 6   [] k = "7" -> 7
      [] k = "8" -> 8   [] k = "9" -> 9   [] k = "10" -> 10 [] k = "11" -> 11
      [] k = "12" -> 12 [] k = "13" -> 13 [] k = "01" -> 1

\* str(q.id), as the prompt numbers the questions
str(i) ==
    CASE i = 0 -> "0"   [] i = 1 -> "1"   [] i = 2 -> "2"   [] i = 3 -> "3"
      [] i = 4 -> "4"   [] i = 5 -> "5"   [] i = 6 -> "6"   [] i = 7 -> "7"
      [] i = 8 -> "8"   [] i = 9 -> "9"   [] i = 10 -> "10" [] i = 11 -> "11"
      [] i = 12 -> "12" [] i = 13 -> "13"

FollowupFallback ==
    "Could you share a bit more about that? (If you'd rather not answer, that's okay.)"

PromptFallback ==
    "Could you tell me a bit about how you've been feeling and your daily routine?"

CompletionMessage ==
    "Thank you for sharing all of this with me! Your assessment is complete. You can view the full report in the 'Questionnaire' tab now."

\* truth value of an Optional[str]
Truthy(s) == s # None /\ s # ""

analyze_single_question_first_letter(reply) ==
    IF reply.raises THEN None
    ELSE LET answer == upper(strip(reply.text))
         IN  IF answer \in Letters THEN answer
             ELSE IF answer = "A, MOSTLY" THEN "A" ELSE None

analyze_single_question(reply) ==
    IF reply.raises THEN None
    ELSE LET answer == upper(strip(reply.text))
         IN  IF answer \in Letters THEN answer ELSE None

\* {int(k): v for k, v in answers.items() if v and v in ['A','B','C','D']};
\* Failed stands for the exception that int(k) raises
Failed == [failed |-> TRUE, dict |-> <<>>]

RECURSIVE Comprehension(_, _, _)
Comprehension(items, i, acc) ==
    IF i > Len(items) THEN [failed |-> FALSE, dict |-> acc]
    ELSE LET k == items[i][1]
             v == items[i][2]
         IN  IF v \in Letters
             THEN IF k \notin IntLiterals THEN Failed
                  ELSE Comprehension(items, i + 1, Put(acc, int(k), v))
             ELSE Comprehension(items, i + 1, acc)

\* reply.json is what json.loads makes of the located text: "invalid" (it
\* raises), "array" (a value without .items()) or "object" with reply.items,
\* the (key, value) pairs of the parsed dict in order
analyze_all_unanswered(ca, reply) ==
    IF Len(get_unanswered_questions(ca)) = 0 THEN <<>>
    ELSE IF reply.raises \/ reply.json # "object" THEN <<>>
    ELSE LET r == Comprehension(reply.items, 1, <<>>)
         IN  IF r.failed THEN <<>> ELSE r.dict

generate_followup(reply) ==
    IF reply.raises THEN FollowupFallback ELSE strip(reply.text)

get_next_prompt(reply) ==
    IF reply.raises THEN PromptFallback ELSE strip(reply.text)
-----------------------------------------------------------------------------
(* chatbot.py: the dialogue manager *)

Ids(qs) == [i \in 1..Len(qs) |-> qs[i].id]

get_next_unanswered_group_last_tie(ca) ==
    LET unanswered == get_unanswered_questions(ca)
        cat_map(c) == SelectSeq(unanswered, LAMBDA q : q.category = c)
        keys       == {unanswered[i].category : i \in 1..Len(unanswered)}
        first(c)   == CHOOSE i \in 1..Len(unanswered) :
                          /\ unanswered[i].category = c
                          /\ \A j \in 1..(i - 1) : unanswered[j].category # c
        best       == CHOOSE c \in keys : \A d \in keys :
                          \/ Len(cat_map(c)) > Len(cat_map(d))
                          \/ Len(cat_map(c)) = Len(cat_map(d)) /\ first(c) >= first(d)
        best_group == cat_map(best)
    IN  IF Len(unanswered) = 0 THEN <<>>
        ELSE IF Len(best_group) > 1
             THEN SubSeq(best_group, 1, IF Len(best_group) < 3 THEN Len(best_group) ELSE 3)
             ELSE <<unanswered[1]>>

get_next_unanswered_group_all(ca) == get_unanswered_questions(ca)

get_next_unanswered_group(ca) ==
    LET unanswered == get_unanswered_questions(ca)
        cat_map(c) == SelectSeq(unanswered, LAMBDA q : q.category = c)
        keys       == {unanswered[i].category : i \in 1..Len(unanswered)}
        first(c)   == CHOOSE i \in 1..Len(unanswered) :
                          /\ unanswered[i].category = c
                          /\ \A j \in 1..(i - 1) : unanswered[j].category # c
        best       == CHOOSE c \in keys : \A d \in keys :
                          \/ Len(cat_map(c)) > Len(cat_map(d))
                          \/ Len(cat_map(c)) = Len(cat_map(d)) /\ first(c) <= first(d)
        best_group == cat_map(best)
    IN  IF Len(unanswered) = 0 THEN <<>>
        ELSE IF Len(best_group) > 1
             THEN SubSeq(best_group, 1, IF Len(best_group) < 3 THEN Len(best_group) ELSE 3)
             ELSE <<unanswered[1]>>

\* The chatbot object: the fields that process_user_reply and
\* _generate_response read and write
Self == [current_answers           |-> current_answers,
         conversation_history      |-> conversation_history,
         last_pursued_question_ids |-> last_pursued_question_ids,
         pending_followup          |-> pending_followup,
         followup_attempts         |-> followup_attempts]

InSeq(x, s) == \E i \in 1..Len(s) : s[i] = x

\* The loop of process_user_reply over pursued_questions. single[q] is the
\* model's reply to the single-question prompt of question q, followup[n] its
\* reply to the n-th follow-up prompt of the turn. acc carries the object's
\* fields, the locals answered_qids and any_answered_in_group, and the calls
\* made: asked (ids sent to analyze_single_question), followups (id and
\* text of every generate_followup).
RECURSIVE PursuedLoop_reset_answered(_, _, _, _, _)
PursuedLoop_reset_answered(pursued_questions, i, acc, single, followup) ==
    IF i > Len(pursued_questions) THEN acc
    ELSE LET question == pursued_questions[i] IN
         IF acc.self.current_answers[question.id] # NoneEntry
         THEN PursuedLoop_reset_answered(pursued_questions, i + 1,
                [acc EXCEPT !.self.followup_attempts = Put(@, question.id, 0)],
                single, followup)
         ELSE LET answer == analyze_single_question(single[question.id])
                  asked  == [acc EXCEPT !.asked = Append(@, question.id)]
              IN  IF answer # None
                  THEN PursuedLoop_reset_answered(pursued_questions, i + 1,
                         [asked EXCEPT
                            !.answered_qids = Put(@, question.id, answer),
                            !.self.followup_attempts = Put(@, question.id, 0),
                            !.any_answered_in_group = TRUE],
                         single, followup)
                  ELSE IF ~Truthy(acc.self.pending_followup)
                  THEN LET text == generate_followup(followup[Len(acc.followups) + 1])
                       IN  PursuedLoop_reset_answered(pursued_questions, i + 1,
                             [asked EXCEPT
                                !.self.followup_attempts =
                                    Put(@, question.id, Get(@, question.id, 0) + 1),
                                !.self.pending_followup = text,
                                !.followups = Append(@, [id |-> question.id, text |-> text])],
                             single, followup)
                  ELSE PursuedLoop_reset_answered(pursued_questions, i + 1, asked,
                                                  single, followup)

RECURSIVE PursuedLoop(_, _, _, _, _)
PursuedLoop(pursued_questions, i, acc, single, followup) ==
    IF i > Len(pursued_questions) THEN acc
    ELSE LET question == pursued_questions[i] IN
         IF acc.self.current_answers[question.id] # NoneEntry
         THEN PursuedLoop(pursued_questions, i + 1, acc, single, followup)
         ELSE LET answer == analyze_single_question(single[question.id])
                  asked  == [acc EXCEPT !.asked = Append(@, question.id)]
              IN  IF answer # None
                  THEN PursuedLoop(pursued_questions, i + 1,
                         [asked EXCEPT
                            !.answered_qids = Put(@, question.id, answer),
                            !.self.followup_attempts = Put(@, question.id, 0),
                            !.any_answered_in_group = TRUE],
                         single, followup)
                  ELSE IF ~Truthy(acc.self.pending_followup)
                  THEN LET text == generate_followup(followup[Len(acc.followups) + 1])
                       IN  PursuedLoop(pursued_questions, i + 1,
                             [asked EXCEPT
                                !.self.followup_attempts =
                                    Put(@, question.id, Get(@, question.id, 0) + 1),
                                !.self.pending_followup = text,
                                !.followups = Append(@, [id |-> question.id, text |-> text])],
                             single, followup)
                  ELSE PursuedLoop(pursued_questions, i + 1, asked, single, followup)

PursuitStep_keep_followup(self, user_input, single, followup) ==
    LET appended == [self EXCEPT !.conversation_history =
                         Append(@, [role |-> "user", content |-> user_input])]
        start == [self |-> appended, answered_qids |-> <<>>,
                  any_answered_in_group |-> FALSE,
                  asked |-> <<>>, followups |-> <<>>]
    IN  IF Len(self.last_pursued_question_ids) > 0
        THEN LET pursued_questions ==
                     SelectSeq(questions, LAMBDA q : InSeq(q.id, self.last_pursued_question_ids))
                 r == PursuedLoop(pursued_questions, 1, start, single, followup)
             IN  IF r.any_answered_in_group
                 THEN [r EXCEPT !.self.last_pursued_question_ids = <<>>]
                 ELSE r
        ELSE start

\* process_user_reply up to the end of the pursuit step (lines 234-257)
PursuitStep(self, user_input, single, followup) ==
    LET appended == [self EXCEPT !.conversation_history =
                         Append(@, [role |-> "user", content |-> user_input])]
        start == [self |-> appended, answered_qids |-> <<>>,
                  any_answered_in_group |-> FALSE,
                  asked |-> <<>>, followups |-> <<>>]
    IN  IF Len(self.last_pursued_question_ids) > 0
        THEN LET pursued_questions ==
                     SelectSeq(questions, LAMBDA q : InSeq(q.id, self.last_pursued_question_ids))
                 r == PursuedLoop(pursued_questions, 1, start, single, followup)
             IN  IF r.any_answered_in_group
                 THEN [r EXCEPT !.self.last_pursued_question_ids = <<>>,
                                !.self.pending_followup = None]
                 ELSE r
        ELSE start

process_user_reply_keep_followup(self, user_input, single, followup, batch) ==
    LET p == PursuitStep(self, user_input, single, followup)
    IN  IF p.answered_qids = <<>>
        THEN [p EXCEPT !.answered_qids =
                          analyze_all_unanswered(p.self.current_answers, batch)]
             @@ [batch_called |-> TRUE]
        ELSE p @@ [batch_called |-> FALSE]

process_user_reply_always_batch(self, user_input, single, followup, batch) ==
    LET p == PursuitStep(self, user_input, single, followup)
    IN  [p EXCEPT !.self.pending_followup = None,
                  !.answered_qids =
                     analyze_all_unanswered(p.self.current_answers, batch) @@ @]
        @@ [batch_called |-> TRUE]

process_user_reply_clear_pursuit(self, user_input, single, followup, batch) ==
    LET p == PursuitStep(self, user_input, single, followup)
    IN  IF p.answered_qids = <<>>
        THEN [p EXCEPT !.self.pending_followup = None,
                       !.self.last_pursued_question_ids = <<>>,
                       !.answered_qids =
                          analyze_all_unanswered(p.self.current_answers, batch)]
             @@ [batch_called |-> TRUE]
        ELSE p @@ [batch_called |-> FALSE]

process_user_reply_reset_attempts(self, user_input, single, followup, batch) ==
    LET p == PursuitStep(self, user_input, single, followup)
    IN  IF p.answered_qids = <<>>
        THEN [p EXCEPT !.self.pending_followup = None,
                       !.self.followup_attempts = <<>>,
                       !.answered_qids =
                          analyze_all_unanswered(p.self.current_answers, batch)]
             @@ [batch_called |-> TRUE]
        ELSE p @@ [batch_called |-> FALSE]

\* The result carries the chatbot object after the call (self), the returned
\* dict (answered_qids) and what the call did on the way
process_user_reply(self, user_input, single, followup, batch) ==
    LET p == PursuitStep(self, user_input, single, followup)
    IN  IF p.answered_qids = <<>>
        THEN [p EXCEPT !.self.pending_followup = None,
                       !.answered_qids =
                          analyze_all_unanswered(p.self.current_answers, batch)]
             @@ [batch_called |-> TRUE]
        ELSE p @@ [batch_called |-> FALSE]

\* The chatbot objects in which an exception can leave process_user_reply.
\* A failed model call is caught inside analyze_single_question,
\* generate_followup and analyze_all_unanswered, and the handler logs it
\* with console.print; an exception of that call is in no try block and
\* leaves process_user_reply with the assignments made so far: the user
\* entry of the history, the counters and the follow-up of the questions
\* already passed, the counter of the question whose follow-up failed, the
\* cleared follow-up before the batch call.
process_user_reply_raises(self, user_input, single, followup, batch) ==
    LET appended == [self EXCEPT !.conversation_history =
                         Append(@, [role |-> "user", content |-> user_input])]
        start == [self |-> appended, answered_qids |-> <<>>,
                  any_answered_in_group |-> FALSE,
                  asked |-> <<>>, followups |-> <<>>]
        pursued_questions ==
            SelectSeq(questions, LAMBDA q : InSeq(q.id, self.last_pursued_question_ids))
        reached(j) == PursuedLoop(SubSeq(pursued_questions, 1, j - 1), 1, start,
                                  single, followup)
        open == {j \in 1..Len(pursued_questions) :
                    self.current_answers[pursued_questions[j].id] = NoneEntry}
        in_single ==
            {reached(j).self :
                j \in {i \in open : single[pursued_questions[i].id].raises}}
        in_followup ==
            {[reached(j).self EXCEPT !.followup_attempts =
                  Put(@, pursued_questions[j].id, Get(@, pursued_questions[j].id, 0) + 1)] :
                j \in {i \in open :
                          /\ ~single[pursued_questions[i].id].raises
                          /\ analyze_single_question(single[pursued_questions[i].id]) = None
                          /\ ~Truthy(reached(i).self.pending_followup)
                          /\ followup[Len(reached(i).followups) + 1].raises}}
        p == PursuitStep(self, user_input, single, followup)
        in_batch ==
            IF /\ \A j \in open : ~single[pursued_questions[j].id].raises
               /\ p.answered_qids = <<>>
               /\ Len(get_unanswered_questions(self.current_answers)) > 0
               /\ batch.raises
            THEN {[p.self EXCEPT !.pending_followup = None]}
            ELSE {}
    IN  in_single \cup in_followup \cup in_batch

_generate_response_no_append(self, prompt) ==
    LET next_group == get_next_unanswered_group(self.current_answers)
        out(s, response, branch) ==
            [self |-> s, response |-> response, branch |-> branch]
    IN  IF Truthy(self.pending_followup)
        THEN out([self EXCEPT !.pending_followup = None], self.pending_followup, "followup")
        ELSE IF Len(next_group) = 0
             THEN out(self, CompletionMessage, "complete")
             ELSE out([self EXCEPT !.last_pursued_question_ids = Ids(next_group)],
                      get_next_prompt(prompt), "next_group")

_generate_response_prepend(self, prompt) ==
    LET next_group == get_next_unanswered_group(self.current_answers)
        out(s, response, branch) ==
            [self |-> [s EXCEPT !.conversation_history =
                           <<[role |-> "assistant", content |-> response]>> \o @],
             response |-> response, branch |-> branch]
    IN  IF Truthy(self.pending_followup)
        THEN out([self EXCEPT !.pending_followup = None], self.pending_followup, "followup")
        ELSE IF Len(next_group) = 0
             THEN out(self, CompletionMessage, "complete")
             ELSE out([self EXCEPT !.last_pursued_question_ids = Ids(next_group)],
                      get_next_prompt(prompt), "next_group")

_generate_response_no_completion(self, prompt) ==
    LET next_group == get_next_unanswered_group(self.current_answers)
        out(s, response, branch) ==
            [self |-> [s EXCEPT !.conversation_history =
                           Append(@, [role |-> "assistant", content |-> response])],
             response |-> response, branch |-> branch]
    IN  IF Truthy(self.pending_followup)
        THEN out([self EXCEPT !.pending_followup = None], self.pending_followup, "followup")
        ELSE out([self EXCEPT !.last_pursued_question_ids = Ids(next_group)],
                 get_next_prompt(prompt), "next_group")

\* The result carries the chatbot object after the call, the returned
\* response and the branch that produced it
_generate_response_no_pursuit(self, prompt) ==
    LET next_group == get_next_unanswered_group(self.current_answers)
        out(s, response, branch) ==
            [self |-> [s EXCEPT !.conversation_history =
                           Append(@, [role |-> "assistant", content |-> response])],
             response |-> response, branch |-> branch]
    IN  IF Truthy(self.pending_followup)
        THEN out([self EXCEPT !.pending_followup = None], self.pending_followup, "followup")
        ELSE IF Len(next_group) = 0
             THEN out(self, CompletionMessage, "complete")
             ELSE out(self, get_next_prompt(prompt), "next_group")

_generate_response(self, prompt) ==
    LET next_group == get_next_unanswered_group(self.current_answers)
        out(s, response, branch) ==
            [self |-> [s EXCEPT !.conversation_history =
                           Append(@, [role |-> "assistant", content |-> response])],
             response |-> response, branch |-> branch]
    IN  IF Truthy(self.pending_followup)
        THEN out([self EXCEPT !.pending_followup = None], self.pending_followup, "followup")
        ELSE IF Len(next_group) = 0
             THEN out(self, CompletionMessage, "complete")
             ELSE out([self EXCEPT !.last_pursued_question_ids = Ids(next_group)],
                      get_next_prompt(prompt), "next_group")
-----------------------------------------------------------------------------
(* app.py *)

\* for qid, answer in answers.items(): current_answers[qid] = {...}
ApplyAnswers_replace(ca, answers) ==
    [k \in DOMAIN ca \cup DOMAIN answers |->
        IF k \in DOMAIN answers THEN Entry(answers[k], "avika") ELSE NoneEntry]

ApplyAnswers(ca, answers) ==
    [k \in DOMAIN ca \cup DOMAIN answers |->
        IF k \in DOMAIN answers THEN Entry(answers[k], "avika") ELSE ca[k]]

on_select_callback_avika(ca, question_id, selected_answer) ==
    Put(ca, question_id, Entry(selected_answer, "avika"))

on_select_callback_toggle(ca, question_id, selected_answer) ==
    IF ca[question_id] = Entry(selected_answer, "user")
    THEN Put(ca, question_id, NoneEntry)
    ELSE Put(ca, question_id, Entry(selected_answer, "user"))

on_select_callback(ca, question_id, selected_answer) ==
    Put(ca, question_id, Entry(selected_answer, "user"))

questionnaire_card_always_radio(ca, question_id) == {"radio", "Save Answer"}

\* what the card of a question renders: the recorded answer, or the radio
\* with its Save Answer button
questionnaire_card(ca, question_id) ==
    IF ca[question_id] # NoneEntry THEN {"answer"} ELSE {"radio", "Save Answer"}

-----------------------------------------------------------------------------
(* The replies of the generative model and the inputs of the user *)

Reply(text) == [raises |-> FALSE, text |-> text]
Raises == [raises |-> TRUE, text |-> ""]
NoCall == [raises |-> TRUE, text |-> "", json |-> "invalid", items |-> <<>>]

UserMessages == {"I'm fine"}

\* replies to the single-question prompts of a turn: the questions of R get
\* a letter, the others an unusable reply or a failed call
SingleOracles(U) ==
    {[q \in U |-> IF q \in R THEN Reply(" b\n") ELSE Reply("None")] : R \in SUBSET U}
    \cup {[q \in U |-> Raises]}

\* replies to the follow-up prompts of a turn: k blank ones, then a usable one
\* or a failed call
FollowupOracles ==
    {[n \in 1..3 |-> IF n <= k THEN Reply(" \n") ELSE Reply("Could you share a bit more?")] :
        k \in {0, 1}}
    \cup {[n \in 1..3 |-> Raises]}

PromptReplies == {Raises, Reply(" \n"), Reply("How have you been sleeping?")}

Null == "null"

Object(items) == [raises |-> FALSE, text |-> "", json |-> "object", items |-> items]

\* a reply that gives letter to the asked questions of S and null to the others
AllOf(ca, S, letter) ==
    LET unanswered == get_unanswered_questions(ca)
    IN  Object([i \in 1..Len(unanswered) |->
                  <<str(unanswered[i].id),
                    IF unanswered[i].id \in S THEN letter ELSE Null>>])

BatchReplies(ca) ==
    LET unanswered == get_unanswered_questions(ca)
        U        == {unanswered[i].id : i \in 1..Len(unanswered)}
        first    == unanswered[1]
        answered == QuestionIds \ U
    IN  {[NoCall EXCEPT !.raises = TRUE],
         [NoCall EXCEPT !.raises = FALSE, !.json = "invalid"],
         AllOf(ca, {}, "A"),
         AllOf(ca, U, "C"),
         Object(<< <<str(first.id), "D">> >>),
         Object(<< <<"13", "A">> >>),
         Object(<< <<str(first.id), "A">>, <<"Q2", "A">> >>)}
        \cup {Object(<< <<str(q), "D">> >>) :
                q \in {x \in answered : \A y \in answered : x <= y}}

\* replies that resolve no question
VagueSingles(U) == {[q \in U |-> Reply("None")], [q \in U |-> Raises]}

VagueBatches(ca) ==
    {[NoCall EXCEPT !.raises = TRUE], AllOf(ca, {}, "A")}

SelectableIds == {2, 5}
SelectableLetters == {"C"}

-----------------------------------------------------------------------------
(* The session *)

\* before is the chatbot object when the turn begins, pursuit_answers what
\* the pursuit step of process_user_reply resolved, after_reply the pursuit
\* state when process_user_reply returns; question_id and selected_answer
\* are the arguments of on_select_callback
NoPursuit == [last_pursued_question_ids |-> <<>>, pending_followup |-> None,
              followup_attempts |-> <<>>]

NoOp == [op |-> "init", answers |-> <<>>, any_answered_in_group |-> FALSE,
         asked |-> <<>>, followups |-> <<>>, batch |-> "not_called",
         before |-> <<>>, pursuit_answers |-> <<>>,
         after_reply |-> NoPursuit,
         branch |-> "none", response |-> None,
         question_id |-> None, selected_answer |-> None]

Init ==
    /\ current_answers = [k \in QuestionIds |-> NoneEntry]
    /\ conversation_history = <<>>
    /\ last_pursued_question_ids = <<>>
    /\ pending_followup = None
    /\ followup_attempts = <<>>
    /\ results = <<>>
    /\ last = NoOp

\* how the batch call of a turn ended
BatchOutcome(ca, called, batch) ==
    IF ~called THEN "not_called"
    ELSE IF Len(get_unanswered_questions(ca)) = 0 THEN "nothing_to_ask"
    ELSE IF batch.raises THEN "raised"
    ELSE IF batch.json # "object" THEN "unparseable"
    ELSE IF Comprehension(batch.items, 1, <<>>).failed THEN "bad_key"
    ELSE "parsed"

\* handle_user_message: one web turn (never called with an empty message:
\* neither the chat input nor the Send button delivers one). In a vague turn
\* the model's replies resolve nothing. TurnSteps is the turn on the chatbot
\* object, without the displayed chat.
TurnSteps(turns, vague) ==
    /\ Len(conversation_history) < 2 * turns
    /\ \E user_message \in UserMessages :
       LET U == {last_pursued_question_ids[i] : i \in 1..Len(last_pursued_question_ids)}
                   \cap {k \in QuestionIds : current_answers[k] = NoneEntry}
       IN
       \E single \in (IF vague THEN VagueSingles(U) ELSE SingleOracles(U)) :
       \E followup \in (IF \E q \in U : analyze_single_question(single[q]) = None
                        THEN FollowupOracles ELSE {[n \in 1..3 |-> Raises]}) :
       \E pursuit \in {PursuitStep(Self, user_message, single, followup)} :
       \E batch \in (IF pursuit.answered_qids = <<>>
                        /\ Len(get_unanswered_questions(current_answers)) > 0
                     THEN (IF vague THEN VagueBatches(current_answers)
                           ELSE BatchReplies(current_answers))
                     ELSE {NoCall}) :
       \E p \in {process_user_reply(Self, user_message, single, followup, batch)} :
       LET answers == p.answered_qids IN
       \E applied \in {[p.self EXCEPT !.current_answers = ApplyAnswers(@, answers)]} :
       \E prompt \in (IF ~Truthy(applied.pending_followup)
                         /\ Len(get_next_unanswered_group(applied.current_answers)) > 0
                      THEN PromptReplies ELSE {Raises}) :
       \E g \in {_generate_response(applied, prompt)} :
       /\ current_answers' = g.self.current_answers
       /\ conversation_history' = g.self.conversation_history
       /\ last_pursued_question_ids' = g.self.last_pursued_question_ids
       /\ pending_followup' = g.self.pending_followup
       /\ followup_attempts' = g.self.followup_attempts
       /\ last' = [op |-> "handle_user_message",
                   before |-> Self,
                   pursuit_answers |-> pursuit.answered_qids,
                   answers |-> answers,
                   any_answered_in_group |-> p.any_answered_in_group,
                   asked |-> p.asked,
                   followups |-> p.followups,
                   batch |-> BatchOutcome(current_answers, p.batch_called, batch),
                   after_reply |->
                      [last_pursued_question_ids |-> p.self.last_pursued_question_ids,
                       pending_followup |-> p.self.pending_followup,
                       followup_attempts |-> p.self.followup_attempts],
                   branch |-> g.branch,
                   response |-> g.response,
                   question_id |-> None, selected_answer |-> None]

Turn(turns, vague) == TurnSteps(turns, vague) /\ UNCHANGED results

\* questionnaire_card: the radio and the Save Answer button are rendered only
\* for a question without an answer
SaveAnswer ==
    \E question_id \in SelectableIds, user_choice \in SelectableLetters :
       /\ "Save Answer" \in questionnaire_card(current_answers, question_id)
       /\ Cardinality({k \in DOMAIN current_answers :
                          current_answers[k].source = "user"}) < MaxUserAnswers
       /\ current_answers' = on_select_callback(current_answers, question_id, user_choice)
       /\ last' = [NoOp EXCEPT !.op = "on_select_callback",
                                !.before = Self,
                                !.question_id = question_id,
                                !.selected_answer = user_choice]
       /\ UNCHANGED <<conversation_history, last_pursued_question_ids,
                      pending_followup, followup_attempts, results>>

HandleUserMessage == Turn(MaxTurns, FALSE)

Next == HandleUserMessage \/ SaveAnswer

Spec == Init /\ [][Next]_vars

-----------------------------------------------------------------------------
(* A session in which the user stays vague: no reply of the model resolves
   a question *)

VagueTurn == Turn(MaxVagueTurns, TRUE)

NextVague == VagueTurn \/ SaveAnswer

SpecVague == Init /\ [][NextVague]_vars

-----------------------------------------------------------------------------
(* Scoring as a function of the Answer Store: the stores in which the
   questions of one category have any entries *)

Entries == {NoneEntry} \cup {Entry(l, src) : l \in Letters, src \in {"user", "avika"}}

ScoreStores ==
    UNION {{[k \in QuestionIds |-> IF k \in DOMAIN f THEN f[k] ELSE NoneEntry] :
              f \in [{questions[i].id : i \in {j \in 1..Len(questions) :
                                                questions[j].category = c}} -> Entries]} :
           c \in Category}

InitScore ==
    /\ current_answers \in ScoreStores
    /\ conversation_history = <<>>
    /\ last_pursued_question_ids = <<>>
    /\ pending_followup = None
    /\ followup_attempts = <<>>
    /\ results = <<>>
    /\ last = NoOp

\* the scores of the report, category by category
ReadScores ==
    /\ results' = [category \in Category |-> get_category_score(current_answers, category)]
    /\ last' = [NoOp EXCEPT !.op = "get_category_score"]
    /\ UNCHANGED <<current_answers, conversation_history, last_pursued_question_ids,
                   pending_followup, followup_attempts>>

NextScore == ReadScores

SpecScore == InitScore /\ [][NextScore]_vars

-----------------------------------------------------------------------------
(* Reading the session: the progress and the report of the Questionnaire tab *)

MaxReadTurns == 1

show_questionnaire_log(self) ==
    LET ca == self.current_answers IN
    [self    |-> [self EXCEPT !.conversation_history =
                     Append(@, [role |-> "assistant", content |-> "report"])],
     results |-> [answers    |-> ca,
                  history    |-> self.conversation_history,
                  unanswered |-> Ids(get_unanswered_questions(ca)),
                  progress   |-> get_completion_percentage(ca),
                  scores     |-> [category \in Category |->
                                     get_category_score(ca, category)]]]

\* what a run of the script reads for display: the store and the history,
\* get_unanswered_questions, get_completion_percentage and, for the report,
\* get_category_score of every category. The result carries the session
\* after the reads.
show_questionnaire(self) ==
    LET ca == self.current_answers IN
    [self    |-> self,
     results |-> [answers    |-> ca,
                  history    |-> self.conversation_history,
                  unanswered |-> Ids(get_unanswered_questions(ca)),
                  progress   |-> get_completion_percentage(ca),
                  scores     |-> [category \in Category |->
                                     get_category_score(ca, category)]]]

ShowQuestionnaire ==
    \E r \in {show_questionnaire(Self)} :
       /\ current_answers' = r.self.current_answers
       /\ conversation_history' = r.self.conversation_history
       /\ last_pursued_question_ids' = r.self.last_pursued_question_ids
       /\ pending_followup' = r.self.pending_followup
       /\ followup_attempts' = r.self.followup_attempts
       /\ results' = r.results
       /\ last' = [NoOp EXCEPT !.op = "show_questionnaire"]

ReadTurn == Turn(MaxReadTurns, FALSE)

NextRead == ReadTurn \/ SaveAnswer \/ ShowQuestionnaire

SpecRead == Init /\ [][NextRead]_vars

-----------------------------------------------------------------------------
(* The next group as a function of the Answer Store: the stores in which any
   questions of the bank have an answer *)

GroupStores ==
    {[k \in QuestionIds |-> IF k \in S THEN Entry("A", "avika") ELSE NoneEntry] :
        S \in SUBSET QuestionIds}

InitGroup ==
    /\ current_answers \in GroupStores
    /\ conversation_history = <<>>
    /\ last_pursued_question_ids = <<>>
    /\ pending_followup = None
    /\ followup_attempts = <<>>
    /\ results = <<>>
    /\ last = NoOp

\* the ids of the group _generate_response would pursue next
NextGroup ==
    /\ last.op = "init"
    /\ results' = Ids(get_next_unanswered_group(current_answers))
    /\ last' = [NoOp EXCEPT !.op = "get_next_unanswered_group"]
    /\ UNCHANGED <<current_answers, conversation_history, last_pursued_question_ids,
                   pending_followup, followup_attempts>>

SpecGroup == InitGroup /\ [][NextGroup]_vars

-----------------------------------------------------------------------------
(* The answer extractor as a function of the model's reply: one call of
   analyze_single_question or analyze_all_unanswered in a fresh session *)

SingleTexts == {"A", "B", "C", "D", "a", "b", " b\n", "None", "none",
                "A, mostly", "AB", "", " \n"}

SingleReplies == {Reply(text) : text \in SingleTexts} \cup {Raises}

BatchKeys == {"1", "2", "Q2", "13"}

BatchValues == {"A", "D", "a", "E", Null}

\* the parsed objects with at most two entries
BatchObjects ==
    {Object(<<>>)}
    \cup {Object(<< <<k, v>> >>) : k \in BatchKeys, v \in BatchValues}
    \cup {Object(<<e[1], e[2]>>) :
            e \in {x \in (BatchKeys \X BatchValues) \X (BatchKeys \X BatchValues) :
                      x[1][1] # x[2][1]}}

BatchInputs ==
    BatchObjects \cup {[NoCall EXCEPT !.raises = TRUE],
                       [NoCall EXCEPT !.raises = FALSE, !.json = "invalid"],
                       [NoCall EXCEPT !.raises = FALSE, !.json = "array"]}

InitParse ==
    /\ current_answers = [k \in QuestionIds |-> NoneEntry]
    /\ conversation_history = <<>>
    /\ last_pursued_question_ids = <<>>
    /\ pending_followup = None
    /\ followup_attempts = <<>>
    /\ results \in {[call |-> "analyze_single_question", reply |-> r, value |-> None] :
                      r \in SingleReplies}
                   \cup {[call |-> "analyze_all_unanswered", reply |-> r, value |-> <<>>] :
                           r \in BatchInputs}
    /\ last = NoOp

AnalyzeSingleQuestion ==
    /\ last.op = "init"
    /\ results.call = "analyze_single_question"
    /\ results' = [results EXCEPT !.value = analyze_single_question(results.reply)]
    /\ last' = [NoOp EXCEPT !.op = "analyze_single_question"]
    /\ UNCHANGED <<current_answers, conversation_history, last_pursued_question_ids,
                   pending_followup, followup_attempts>>

AnalyzeAllUnanswered ==
    /\ last.op = "init"
    /\ results.call = "analyze_all_unanswered"
    /\ results' = [results EXCEPT
                      !.value = analyze_all_unanswered(current_answers, results.reply)]
    /\ last' = [NoOp EXCEPT !.op = "analyze_all_unanswered"]
    /\ UNCHANGED <<current_answers, conversation_history, last_pursued_question_ids,
                   pending_followup, followup_attempts>>

NextParse == AnalyzeSingleQuestion \/ AnalyzeAllUnanswered

SpecParse == InitParse /\ [][NextParse]_vars

-----------------------------------------------------------------------------
(* The command-line chat loop (chatbot.py, chat) *)

MaxLines == 2

\* Question.keywords and Question.context_hints, by question id (no phrase
\* occurs twice in one list)
keywords ==
    << {"appearance", "grooming", "dressed", "clean", "hygiene", "clothes",
        "shower", "shaved", "makeup"},
       {"connected", "surroundings", "environment", "aware", "present",
        "detached", "distant"},
       {"aware", "alert", "responsive", "distracted", "preoccupied", "withdrawn"},
       {"opinion", "respond", "answer", "question", "avoid", "challenge"},
       {"eye contact", "look", "gaze", "stare", "eyes"},
       {"gesture", "move", "fidget", "restricted", "forceful", "body language"},
       {"speak", "talk", "conversation", "words", "think", "clear"},
       {"rough day", "upset", "shake off", "overwhelm", "cope", "handle"},
       {"meeting", "speak", "explain", "thoughts", "track", "words"},
       {"pain", "ache", "headache", "discomfort", "physical", "body"},
       {"stomach", "digestion", "stress", "deadline", "upset", "bloating"},
       {"tired", "energy", "drained", "exhausted", "rest", "sleep"} >>

context_hints ==
    << {"how do you look", "how are you dressed", "how do you take care of yourself"},
       {"how do you feel about your surroundings", "do you feel present",
        "how aware are you"},
       {"how do you respond to situations", "how aware are you of what's happening"},
       {"how do you give your opinion", "what do you do when asked for your thoughts"},
       {"how do you look at people", "do you make eye contact"},
       {"how do you move when talking", "what do you do with your hands"},
       {"how do you feel when talking", "how do you speak in conversations"},
       {"how do you deal with bad days", "what do you do when things go wrong"},
       {"how do you speak in meetings", "what happens when you present"},
       {"do you have any pain", "how's your body feeling", "any physical discomfort"},
       {"how's your stomach", "do you get digestive issues",
        "how do you feel during stress"},
       {"how's your energy", "do you feel tired", "how do you feel after sleeping"} >>

\* user_input.lower(), given by the phrases of the bank that are substrings
\* of it ("interested" contains "rest")
input_lower(user_input) ==
    CASE user_input = "I shower daily"                   -> {"shower"}
      [] user_input = "I feel TIRED and upset"           -> {"tired", "upset"}
      [] user_input = "Do you feel tired? I sleep badly" ->
             {"do you feel tired", "tired", "sleep"}
      [] user_input = "I am interested"                  -> {"rest"}
      [] user_input = "How do you look at people? I feel tired" ->
             {"how do you look", "how do you look at people", "look", "tired"}
      [] user_input = "I shower, but do you feel tired?" ->
             {"do you feel tired", "shower", "tired"}
      [] OTHER                                           -> {}

\* sorted(..., key=relevance, reverse=True): stable, so equally relevant
\* questions keep their order
RECURSIVE sorted(_, _, _)
sorted(items, i, acc) ==
    IF i > Len(items) THEN acc
    ELSE LET x == items[i]
             n == Cardinality({j \in 1..Len(acc) : acc[j].relevance >= x.relevance})
         IN  sorted(items, i + 1,
                    SubSeq(acc, 1, n) \o <<x>> \o SubSeq(acc, n + 1, Len(acc)))

\* _get_relevant_questions over the whole bank instead of the unanswered
\* questions
_get_relevant_questions_all(ca, user_input) ==
    LET relevance(question) ==
            Cardinality(keywords[question.id] \cap input_lower(user_input)) * 7
            + Cardinality(context_hints[question.id] \cap input_lower(user_input)) * 3
        scored == [i \in 1..Len(questions) |->
                     [question |-> questions[i], relevance |-> relevance(questions[i])]]
    IN  sorted(SelectSeq(scored, LAMBDA x : x.relevance > 0), 1, <<>>)

\* relevance is in tenths: keyword_matches * 0.7 + context_matches * 0.3
_get_relevant_questions(ca, user_input) ==
    LET unanswered == get_unanswered_questions(ca)
        relevance(question) ==
            Cardinality(keywords[question.id] \cap input_lower(user_input)) * 7
            + Cardinality(context_hints[question.id] \cap input_lower(user_input)) * 3
        scored == [i \in 1..Len(unanswered) |->
                     [question |-> unanswered[i], relevance |-> relevance(unanswered[i])]]
    IN  sorted(SelectSeq(scored, LAMBDA x : x.relevance > 0), 1, <<>>)

_analyze_response(relevant_questions, reply) ==
    IF Len(relevant_questions) = 0 THEN None
    ELSE IF reply.raises THEN None
    ELSE LET answer == upper(strip(reply.text))
         IN  IF answer \in Letters THEN answer ELSE None

\* the value chat stores for an answer: the letter itself, a str and not a
\* dict with the keys answer and source
Bare(letter) == [str |-> letter]

\* _display_results raises TypeError on the first entry that is not None:
\* get_category_score subscripts a str with 'answer', and q.options[answer]
\* looks a dict up as a key
_display_results(ca) ==
    IF \E i \in 1..Len(questions) : ca[questions[i].id] # NoneEntry
    THEN "raised" ELSE "printed"

CLIInputs == {"I shower daily", "I feel TIRED and upset",
              "Do you feel tired? I sleep badly", "I am interested", "ok"}

QuitWords == {"quit", "exit", "bye"}

AnalysisReplies == {Reply(" b\n"), Reply("None"), Raises}

\* one pass of the loop of chat for an input that is not a quit word
ChatLine ==
    /\ last.op # "break"
    /\ Len(conversation_history) < 3 * MaxLines
    /\ \E user_input \in CLIInputs :
       \E relevant_questions \in {_get_relevant_questions(current_answers, user_input)} :
       \E reply \in (IF Len(relevant_questions) > 0 THEN AnalysisReplies ELSE {Raises}) :
       \E answer \in {_analyze_response(relevant_questions, reply)} :
       \E stored \in {[Self EXCEPT
                         !.conversation_history =
                             Append(@, [role |-> "user", content |-> user_input]),
                         !.current_answers =
                             IF answer # None
                             THEN Put(@, relevant_questions[1].question.id, Bare(answer))
                             ELSE @]} :
       \E prompt \in (IF Len(get_next_unanswered_group(stored.current_answers)) > 0
                      THEN PromptReplies ELSE {Raises}) :
       \E g \in {_generate_response(stored, prompt)} :
       LET pct      == get_completion_percentage(g.self.current_answers)
           complete == pct.num = 100 * pct.den
           display  == IF complete THEN _display_results(g.self.current_answers)
                       ELSE "not_called"
       IN
       /\ current_answers' = g.self.current_answers
       /\ conversation_history' =
             Append(g.self.conversation_history,
                    [role |-> "assistant", content |-> g.response])
       /\ last_pursued_question_ids' = g.self.last_pursued_question_ids
       /\ pending_followup' = g.self.pending_followup
       /\ followup_attempts' = g.self.followup_attempts
       /\ results' = display
       /\ last' = [NoOp EXCEPT
                     !.op = IF display = "printed" THEN "break" ELSE "chat",
                     !.answers = IF answer # None
                                 THEN Put(<<>>, relevant_questions[1].question.id, answer)
                                 ELSE <<>>,
                     !.asked = Ids([i \in 1..Len(relevant_questions) |->
                                       relevant_questions[i].question]),
                     !.branch = g.branch,
                     !.response = g.response]

\* the user types a quit word: the loop ends
Quit ==
    /\ last.op # "break"
    /\ \E user_input \in QuitWords :
          last' = [NoOp EXCEPT !.op = "break", !.response = user_input]
    /\ UNCHANGED <<current_answers, conversation_history, last_pursued_question_ids,
                   pending_followup, followup_attempts, results>>

NextCLI == ChatLine \/ Quit

SpecCLI == Init /\ [][NextCLI]_vars

-----------------------------------------------------------------------------
(* The relevance matcher as a function of the Answer Store and the user
   text: one call of _get_relevant_questions, whose input and value are in
   results *)

RelevantInputs == CLIInputs \cup {"How do you look at people? I feel tired",
                                  "I shower, but do you feel tired?"}

\* stores in which questions 1, 5, 8 and 12 are unanswered, answered by a
\* web turn or answered by the chat loop
RelevantStores ==
    {[k \in QuestionIds |-> IF k \in DOMAIN f THEN f[k] ELSE NoneEntry] :
        f \in [{1, 5, 8, 12} -> {NoneEntry, Entry("B", "avika"), Bare("C")}]}

InitRelevant ==
    /\ current_answers \in RelevantStores
    /\ conversation_history = <<>>
    /\ last_pursued_question_ids = <<>>
    /\ pending_followup = None
    /\ followup_attempts = <<>>
    /\ results \in {[call |-> "_get_relevant_questions", user_input |-> u,
                     value |-> <<>>] : u \in RelevantInputs}
    /\ last = NoOp

GetRelevantQuestions ==
    /\ last.op = "init"
    /\ results' = [results EXCEPT
                      !.value = _get_relevant_questions(current_answers,
                                                        results.user_input)]
    /\ last' = [NoOp EXCEPT !.op = "_get_relevant_questions", !.before = Self]
    /\ UNCHANGED <<current_answers, conversation_history,
                   last_pursued_question_ids, pending_followup, followup_attempts>>

NextRelevant == GetRelevantQuestions

SpecRelevant == InitRelevant /\ [][NextRelevant]_vars

-----------------------------------------------------------------------------
(* The web session with the displayed chat (st.session_state.messages, kept
   in results) and with turns in which the message-handling step raises *)

MaxRaiseTurns == 2

\* (the dash of the source is written - here)
initial_msg ==
    "Hi! I'm Avika. I'm here to chat about your well-being. Feel free to share as much or as little as you like - there's no pressure. How are you feeling today?"

\* error_message without the details of the exception
error_message ==
    "I'm having trouble connecting to the AI service right now. Please check if the API key is configured correctly in your Streamlit secrets."

\* ensure_initial_avika_message has run before the user can send a message
InitRaise ==
    /\ current_answers = [k \in QuestionIds |-> NoneEntry]
    /\ conversation_history = <<>>
    /\ last_pursued_question_ids = <<>>
    /\ pending_followup = None
    /\ followup_attempts = <<>>
    /\ results = <<[role |-> "assistant", content |-> initial_msg]>>
    /\ last = NoOp

\* the except branch of handle_user_message
except_branch_silent(messages) == messages

except_branch(messages) ==
    Append(messages, [role |-> "assistant", content |-> error_message])

\* replies to the single-question prompts of a turn, each one a letter, an
\* unusable reply or a failed call
RaisingSingles(U) == [U -> {Reply(" b\n"), Reply("None"), Raises}]

\* a turn that ends in the try block
DisplayedTurn ==
    /\ Len(results) < 1 + 2 * MaxRaiseTurns
    /\ TurnSteps(MaxRaiseTurns, FALSE)
    /\ results' = results
                     \o <<conversation_history'[Len(conversation_history) + 1],
                          [role |-> "assistant", content |-> last'.response]>>

\* a turn in which process_user_reply raises: the user message is displayed
\* before the try block, the except branch displays the error message, no
\* answer is written and _generate_response is not reached
RaisingTurn ==
    /\ Len(results) < 1 + 2 * MaxRaiseTurns
    /\ \E user_message \in UserMessages :
       LET U == {last_pursued_question_ids[i] : i \in 1..Len(last_pursued_question_ids)}
                   \cap {k \in QuestionIds : current_answers[k] = NoneEntry}
       IN
       \E single \in RaisingSingles(U) :
       \E followup \in FollowupOracles :
       \E batch \in {[NoCall EXCEPT !.raises = TRUE]} :
       \E raised \in process_user_reply_raises(Self, user_message, single,
                                                followup, batch) :
       /\ current_answers' = raised.current_answers
       /\ conversation_history' = raised.conversation_history
       /\ last_pursued_question_ids' = raised.last_pursued_question_ids
       /\ pending_followup' = raised.pending_followup
       /\ followup_attempts' = raised.followup_attempts
       /\ results' = except_branch(
                         Append(results, [role |-> "user", content |-> user_message]))
       /\ last' = [NoOp EXCEPT !.op = "except", !.before = Self]

\* the chat tab alone: messages are the only input
NextRaise == DisplayedTurn \/ RaisingTurn

SpecRaise == InitRaise /\ [][NextRaise]_vars

-----------------------------------------------------------------------------
(* The web session without an end: the user sends messages for ever. The
   pursuit set is chosen from the Answer Store alone, so the session is
   kept finite in what that choice does not read: the history is cut to
   the last six entries, the part the prompts are built from, and the
   follow-up counters stop at MaxAttempts. *)

MaxAttempts == 1

\* conversation_history[-6:]
Window(history) ==
    IF Len(history) <= 6 THEN history
    ELSE SubSeq(history, Len(history) - 5, Len(history))

Capped(attempts) ==
    [k \in DOMAIN attempts |->
        IF attempts[k] > MaxAttempts THEN MaxAttempts ELSE attempts[k]]

\* batch replies: a failed call, or a letter for the first of the unanswered
\* questions
LiveBatches(ca) ==
    LET unanswered == get_unanswered_questions(ca)
    IN  {[NoCall EXCEPT !.raises = TRUE],
         Object(<< <<str(unanswered[1].id), "B">> >>)}

\* replies to the single-question prompts of a turn: a letter for every
\* question, or for none
LiveSingles(U) == {[q \in U |-> Reply(" b\n")], [q \in U |-> Reply("None")]}

LiveTurn ==
    \E user_message \in UserMessages :
       LET U == {last_pursued_question_ids[i] : i \in 1..Len(last_pursued_question_ids)}
                   \cap {k \in QuestionIds : current_answers[k] = NoneEntry}
       IN
       \E single \in LiveSingles(U) :
       \E followup \in {[n \in 1..3 |-> Raises]} :
       \E pursuit \in {PursuitStep(Self, user_message, single, followup)} :
       \E batch \in (IF pursuit.answered_qids = <<>>
                        /\ Len(get_unanswered_questions(current_answers)) > 0
                     THEN LiveBatches(current_answers)
                     ELSE {NoCall}) :
       \E p \in {process_user_reply(Self, user_message, single, followup, batch)} :
       \E applied \in {[p.self EXCEPT
                          !.current_answers = ApplyAnswers(@, p.answered_qids)]} :
       \E g \in {_generate_response(applied, Raises)} :
       /\ current_answers' = g.self.current_answers
       /\ conversation_history' = Window(g.self.conversation_history)
       /\ last_pursued_question_ids' = g.self.last_pursued_question_ids
       /\ pending_followup' = g.self.pending_followup
       /\ followup_attempts' = Capped(g.self.followup_attempts)
       /\ last' = [NoOp EXCEPT !.op = "handle_user_message"]
       /\ results' = IF results = <<>> THEN <<user_message>> ELSE <<>>

NextLive == LiveTurn

\* the user goes on sending messages; results alternates with the turns, so
\* that a turn is a step even when it leaves the cut history, the capped
\* counters and the rest of the chatbot as they were
SpecLive == Init /\ [][NextLive]_vars /\ WF_vars(LiveTurn)

-----------------------------------------------------------------------------
(* Properties *)

Answered(ca) == {k \in DOMAIN ca : ca[k] # NoneEntry}

AllAnswered(ca) == \A k \in QuestionIds : ca[k] # NoneEntry

AfterTurn == last.op = "handle_user_message"

\* C1: an answer is never retracted. Over every step, a question whose entry
\* is non-null keeps a non-null entry, so the answered questions never become
\* fewer and a session with every question answered stays so.
C1_AnswerNeverRetracted ==
    [][/\ \A k \in Answered(current_answers) :
             k \in DOMAIN current_answers' /\ current_answers'[k] # NoneEntry
       /\ Cardinality(Answered(current_answers')) >= Cardinality(Answered(current_answers))
       /\ AllAnswered(current_answers) => AllAnswered(current_answers')]_vars

\* a second turn has recorded answers of the assistant next to one the user
\* selected
C1_Witness ==
    /\ AfterTurn
    /\ Len(conversation_history) = 4
    /\ last.answers # <<>>
    /\ \E k \in QuestionIds : current_answers[k].source = "user"
    /\ \E k \in QuestionIds : current_answers[k].source = "avika"

\* C2: the turn's assistant message is the completion message exactly when
\* every question of the bank has an answer once the turn's answers are applied.
C2_CompletionIffAllAnswered ==
    AfterTurn =>
        /\ (last.response = CompletionMessage) <=> AllAnswered(current_answers)
        /\ (last.branch = "complete") <=> AllAnswered(current_answers)
        /\ conversation_history[Len(conversation_history)] =
               [role |-> "assistant", content |-> last.response]

\* the second turn resolves the last open questions and closes the assessment
C2_Witness ==
    /\ AfterTurn
    /\ Len(conversation_history) = 4
    /\ last.answers # <<>>
    /\ last.response = CompletionMessage
    /\ conversation_history[2].content # CompletionMessage

\* C3: every key of the Answer Store with a non-null answer is the id of a
\* question of the bank.
C3_AnswerIdsInBank ==
    \A k \in Answered(current_answers) : k \in QuestionIds

\* C4: after a turn, every question resolved in it has the resolved letter
\* with the assistant as source, and its follow-up attempt counter is zero.
C4_ResolvedRecordedAndReset ==
    AfterTurn =>
        \A q \in DOMAIN last.answers :
            /\ q \in DOMAIN current_answers
            /\ current_answers[q] = Entry(last.answers[q], "avika")
            /\ Get(followup_attempts, q, 0) = 0

\* C5: when single-question resolution resolves a pursued question, the
\* follow-up generated in the turn is dropped: the message of the turn comes
\* from another branch and no follow-up is pending afterwards.
C5_FollowupDiscarded ==
    (AfterTurn /\ last.any_answered_in_group) =>
        /\ last.branch # "followup"
        /\ pending_followup = None

\* a follow-up with a text was generated for one pursued question before a
\* later one was resolved
C5_Witness ==
    /\ AfterTurn
    /\ last.any_answered_in_group
    /\ Len(last.followups) > 0
    /\ last.followups[1].text # ""
    /\ last.followups[1].id \notin DOMAIN last.answers

\* C6: when single-question resolution resolves none of the still unanswered
\* pursued questions, the follow-up generated for the first of them is the
\* assistant message of the turn, and the queue is empty afterwards.
C6_VagueReplyFollowedUp ==
    (AfterTurn /\ Len(last.asked) > 0 /\ ~last.any_answered_in_group) =>
        /\ Len(last.followups) > 0
        /\ last.followups[1].id = last.asked[1]
        /\ last.branch = "followup"
        /\ last.response = last.followups[1].text
        /\ pending_followup = None

\* the first pursued question without an answer, in bank order
FirstPursuedUnanswered(ca, pursued) ==
    LET open == SelectSeq(questions, LAMBDA q : InSeq(q.id, pursued) /\ ca[q.id] = NoneEntry)
    IN  IF Len(open) = 0 THEN 0 ELSE open[1].id

\* C7: a turn that resolves nothing and keeps the pursuit set raises the
\* follow-up attempt counter of the first still unanswered pursued question
\* by exactly 1, and no step sets a positive counter back to zero unless the
\* question got its answer in that step.
C7_CounterCountsVagueTurns ==
    [][/\ ( /\ last'.op = "handle_user_message"
            /\ Len(conversation_history') = Len(conversation_history) + 2
            /\ last'.answers = <<>>
            /\ Len(last_pursued_question_ids) > 0
            /\ last_pursued_question_ids' = last_pursued_question_ids
            /\ FirstPursuedUnanswered(current_answers, last_pursued_question_ids) # 0 )
          => LET q == FirstPursuedUnanswered(current_answers, last_pursued_question_ids)
             IN  /\ q \in DOMAIN followup_attempts'
                 /\ followup_attempts'[q] = Get(followup_attempts, q, 0) + 1
       /\ \A q \in DOMAIN followup_attempts :
             (followup_attempts[q] > 0 /\ Get(followup_attempts', q, 0) = 0)
                => (current_answers[q] = NoneEntry /\ current_answers'[q] # NoneEntry)]_vars

\* three vague turns in a row on the first group
C7_Witness ==
    /\ AfterTurn
    /\ last_pursued_question_ids = <<1, 2, 3>>
    /\ 1 \in DOMAIN followup_attempts
    /\ followup_attempts[1] = 3
    /\ current_answers[1] = NoneEntry

\* C8: a turn whose batch call raises or returns an unparseable reply records
\* no answer and still ends with a non-empty assistant message in the history.
C8_BatchFailureStillAnswers ==
    (AfterTurn /\ last.batch \in {"raised", "unparseable"}) =>
        /\ last.answers = <<>>
        /\ last.response # ""
        /\ conversation_history[Len(conversation_history)] =
               [role |-> "assistant", content |-> last.response]

\* C9: the completion percentage is 100 times the number of non-null entries
\* of the Answer Store over the number of questions of the bank.
C9_CompletionPercentage ==
    LET pct == get_completion_percentage(current_answers)
    IN  /\ pct.den > 0
        /\ pct.num * Len(questions) =
               100 * Cardinality(Answered(current_answers)) * pct.den

\* four entries are answered after two turns
C9_Witness ==
    /\ AfterTurn
    /\ Len(conversation_history) = 4
    /\ Cardinality(Answered(current_answers)) = 4

Points(letter) ==
    CASE letter = "A" -> 4 [] letter = "B" -> 3 [] letter = "C" -> 2 [] letter = "D" -> 1

RECURSIVE SumPoints(_, _)
SumPoints(ca, S) ==
    IF S = {} THEN 0
    ELSE LET k == CHOOSE x \in S : TRUE
         IN  Points(ca[k].answer) + SumPoints(ca, S \ {k})

Roles(history) == [i \in 1..Len(history) |-> history[i].role]

IsPrefix(s, t) == Len(s) <= Len(t) /\ SubSeq(t, 1, Len(s)) = s

\* C11: in the web flow every turn appends to the conversation history
\* exactly one user entry followed by exactly one assistant entry, and no
\* other operation appends, so the history always alternates user, assistant,
\* user, assistant, starting with a user entry.
C11_HistoryAlternates ==
    /\ [](/\ Len(conversation_history) % 2 = 0
          /\ \A i \in 1..Len(conversation_history) :
                conversation_history[i].role =
                    IF i % 2 = 1 THEN "user" ELSE "assistant")
    /\ [][last'.op = "handle_user_message" =>
            /\ Len(conversation_history') = Len(conversation_history) + 2
            /\ IsPrefix(conversation_history, conversation_history')
            /\ Roles(SubSeq(conversation_history',
                            Len(conversation_history) + 1,
                            Len(conversation_history'))) = <<"user", "assistant">>
            /\ conversation_history'[Len(conversation_history')].content
                  = last'.response]_vars

\* two completed turns
C11_Witness ==
    /\ AfterTurn
    /\ Roles(conversation_history) = <<"user", "assistant", "user", "assistant">>

\* C12: the conversation history is append-only. Over every step (a web
\* turn, a direct selection) the history before the step is a prefix of the
\* history after it: no entry is edited, reordered or removed.
C12_HistoryAppendOnly ==
    [][IsPrefix(conversation_history, conversation_history')]_vars

\* a turn has appended to a history that already had entries, and a direct
\* selection has left a history with entries alone
C12_Witness ==
    /\ last.op = "on_select_callback"
    /\ Len(conversation_history) = 4

\* C13: a direct selection sets the entry of the selected question to the
\* selected letter with source user and leaves everything else unchanged:
\* the entry of every other question, the pursuit set, the pending follow-up,
\* the follow-up counters and the conversation history.
C13_SelectionFrame ==
    [][last'.op = "on_select_callback" =>
          /\ last'.question_id \in QuestionIds
          /\ last'.selected_answer \in Letters
          /\ DOMAIN current_answers' = DOMAIN current_answers
          /\ current_answers'[last'.question_id]
                = [answer |-> last'.selected_answer, source |-> "user"]
          /\ \A k \in DOMAIN current_answers \ {last'.question_id} :
                current_answers'[k] = current_answers[k]
          /\ last_pursued_question_ids' = last_pursued_question_ids
          /\ pending_followup' = pending_followup
          /\ followup_attempts' = followup_attempts
          /\ conversation_history' = conversation_history]_vars

\* a selection made while a group is pursued, a follow-up counter is positive
\* and other questions have answers
C13_Witness ==
    /\ last.op = "on_select_callback"
    /\ Len(last_pursued_question_ids) > 0
    /\ \E k \in DOMAIN followup_attempts : followup_attempts[k] > 0
    /\ \E k \in Answered(current_answers) : current_answers[k].source = "avika"

\* C14: the direct selection is idempotent. Once on_select_callback has
\* written question q with letter L, running it again with q and L leaves the
\* store as it is; the store holds one entry for q, with letter L and source
\* user, and the number of answered questions has grown by at most one (from
\* a fresh session the completion percentage is 100/12).
C14_SelectionIdempotent ==
    [][last'.op = "on_select_callback" =>
          LET q     == last'.question_id
              L     == last'.selected_answer
              once  == current_answers'
              twice == on_select_callback(once, q, L)
          IN  /\ twice = once
              /\ twice[q] = [answer |-> L, source |-> "user"]
              /\ Cardinality(Answered(twice))
                    <= Cardinality(Answered(current_answers)) + 1
              /\ Answered(current_answers) = {} =>
                    LET pct == get_completion_percentage(twice)
                    IN  pct.num * 12 = 100 * pct.den]_vars

\* a selection made in a fresh session
C14_Witness ==
    /\ last.op = "on_select_callback"
    /\ conversation_history = <<>>
    /\ Answered(current_answers) = {last.question_id}

\* C15: the direct selection is offered for every question in every state
\* of the session, a question that already has an answer included.
C15_SelectionAlwaysOffered ==
    \A q \in QuestionIds :
        "Save Answer" \in questionnaire_card(current_answers, q)

\* C15, amended: in every state the direct selection is offered for exactly
\* the questions without an answer, whatever the pursuit state; a selection
\* is made only for a question without an answer and leaves every recorded
\* answer as it is, so no selection is made once every question is answered.
C15_SelectionWhileUnanswered ==
    /\ [](\A q \in QuestionIds :
             "Save Answer" \in questionnaire_card(current_answers, q)
                <=> current_answers[q] = NoneEntry)
    /\ [][last'.op = "on_select_callback" =>
             /\ current_answers[last'.question_id] = NoneEntry
             /\ ~AllAnswered(current_answers)
             /\ \A k \in Answered(current_answers) :
                   current_answers'[k] = current_answers[k]]_vars

\* a selection made for one question while another one, also selectable when
\* unanswered, keeps the answer the assistant recorded
C15_Witness ==
    /\ last.op = "on_select_callback"
    /\ \E q \in SelectableIds \ {last.question_id} :
          /\ current_answers[q].source = "avika"
          /\ "Save Answer" \notin questionnaire_card(current_answers, q)

PendingCleared(pursuit) == pursuit.pending_followup = None

\* C16 as stated: the pursuit state is empty (no pursued ids, no pending
\* follow-up, no counters) when process_user_reply returns from a turn in
\* which a pursued question was answered or the batch resolution was called.
C16_PursuitResetToEmpty ==
    AfterTurn /\ (last.any_answered_in_group \/ last.batch # "not_called")
        => last.after_reply = NoPursuit

\* C16, amended: when a pursued question is answered, the pursuit set and
\* the pending follow-up are cleared; when the turn falls back to the batch
\* resolution, only the pending follow-up is cleared and the pursuit set is
\* kept. In both cases the counters are kept: no counter is removed, and only
\* the counters of the questions resolved by the pursuit step are set to 0.
C16_PursuitResetPartly ==
    [][last'.op = "handle_user_message" =>
          LET after == last'.after_reply IN
          /\ last'.any_answered_in_group =>
                /\ after.last_pursued_question_ids = <<>>
                /\ PendingCleared(after)
                /\ last'.batch = "not_called"
          /\ last'.batch # "not_called" =>
                /\ after.last_pursued_question_ids = last_pursued_question_ids
                /\ PendingCleared(after)
          /\ DOMAIN followup_attempts \subseteq DOMAIN after.followup_attempts
          /\ \A k \in DOMAIN after.followup_attempts :
                \/ k \in DOMAIN followup_attempts
                      /\ after.followup_attempts[k] = followup_attempts[k]
                \/ last'.any_answered_in_group /\ k \in DOMAIN last'.answers
                      /\ after.followup_attempts[k] = 0
                \/ k \in {last'.followups[i].id : i \in 1..Len(last'.followups)}
                      /\ after.followup_attempts[k]
                            = Get(followup_attempts, k, 0) + 1]_vars

\* a turn in which a pursued question was answered while another one keeps a
\* positive counter
C16_Witness ==
    /\ AfterTurn
    /\ last.any_answered_in_group
    /\ \E k \in DOMAIN last.after_reply.followup_attempts :
          last.after_reply.followup_attempts[k] > 0

\* C17: every non-null entry of the Answer Store is a complete record, with
\* a letter in A..D and a source, user or the assistant ('avika' in the code),
\* after any sequence of operations of any entry point.
C17_EntriesComplete ==
    \A k \in DOMAIN current_answers :
        current_answers[k] # NoneEntry =>
            /\ DOMAIN current_answers[k] = {"answer", "source"}
            /\ current_answers[k].answer \in Letters
            /\ current_answers[k].source \in {"user", "avika"}

AfterRead == last.op = "show_questionnaire"

\* C18: reading the state changes nothing. A read leaves the store, the
\* history and the pursuit state as they are and returns the store and the
\* history of the session; a read that follows a read, with no turn and no
\* selection in between, returns the same store, history, unanswered
\* questions, completion percentage and category scores.
C18_ReadsChangeNothing ==
    [][last'.op = "show_questionnaire" =>
          /\ current_answers' = current_answers
          /\ conversation_history' = conversation_history
          /\ last_pursued_question_ids' = last_pursued_question_ids
          /\ pending_followup' = pending_followup
          /\ followup_attempts' = followup_attempts
          /\ results'.answers = current_answers
          /\ results'.history = conversation_history
          /\ AfterRead => results' = results]_vars

\* a read of a session with an answer, a history and a group pursued
C18_Witness ==
    /\ AfterRead
    /\ Answered(results.answers) # {}
    /\ Len(results.history) > 0
    /\ Len(last_pursued_question_ids) > 0
    /\ results.progress.num > 0

\* position in the bank and category of the question with a given id
Pos(id) == CHOOSE i \in 1..Len(questions) : questions[i].id = id

CategoryOf(id) == questions[Pos(id)].category

Unanswered(ca) == {k \in QuestionIds : ca[k] = NoneEntry}

\* C19: get_next_unanswered_group returns the empty group iff no question is
\* unanswered. Otherwise, if some category has at least 2 unanswered
\* questions, it returns the first (up to 3, in bank order) unanswered
\* questions of the category with the most unanswered questions, ties going
\* to the category whose first unanswered question comes earliest in the
\* bank; otherwise the globally first unanswered question alone. Every
\* returned question is unanswered and all are of one category.
C19_NextGroup ==
    last.op = "get_next_unanswered_group" =>
        LET U       == Unanswered(current_answers)
            In(c)   == {k \in U : CategoryOf(k) = c}
            Least(S) == CHOOSE k \in S : \A j \in S : Pos(k) <= Pos(j)
            group   == {results[i] : i \in 1..Len(results)}
        IN  /\ results = <<>> <=> U = {}
            /\ \A i, j \in 1..Len(results) : i < j => Pos(results[i]) < Pos(results[j])
            /\ group \subseteq U
            /\ \A k, j \in group : CategoryOf(k) = CategoryOf(j)
            /\ (\E c \in Category : Cardinality(In(c)) >= 2) =>
                  \E c \in Category :
                     /\ Cardinality(In(c)) >= 2
                     /\ \A d \in Category \ {c} :
                           \/ Cardinality(In(c)) > Cardinality(In(d))
                           \/ /\ Cardinality(In(c)) = Cardinality(In(d))
                              /\ Pos(Least(In(c))) < Pos(Least(In(d)))
                     /\ group = {k \in In(c) :
                                   Cardinality({j \in In(c) : Pos(j) < Pos(k)}) < 3}
            /\ (U # {} /\ \A c \in Category : Cardinality(In(c)) < 2) =>
                  results = <<Least(U)>>

\* two categories tie with two unanswered questions each, and the category
\* of the first unanswered question of the bank has only one
C19_Witness ==
    /\ last.op = "get_next_unanswered_group"
    /\ Unanswered(current_answers) = {3, 5, 6, 8, 9}
    /\ results = <<5, 6>>

\* C20: at the end of every turn that leaves a bank question unanswered, the
\* pursuit set is non-empty, has at most 3 ids, all of them ids of bank
\* questions of one category that are unanswered; and the ids that have
\* follow-up counters are always ids of bank questions.
C20_PursuitSetWellFormed ==
    /\ DOMAIN followup_attempts \subseteq QuestionIds
    /\ (AfterTurn /\ Unanswered(current_answers) # {}) =>
          LET pursued == {last_pursued_question_ids[i] :
                             i \in 1..Len(last_pursued_question_ids)}
          IN  /\ Len(last_pursued_question_ids) \in 1..3
              /\ Cardinality(pursued) = Len(last_pursued_question_ids)
              /\ pursued \subseteq QuestionIds
              /\ \A k, j \in pursued : CategoryOf(k) = CategoryOf(j)
              /\ pursued \subseteq Unanswered(current_answers)

\* the end of a turn with a follow-up counter and an answered question, after
\* which the group of another category is pursued
C20_Witness ==
    /\ AfterTurn
    /\ followup_attempts # <<>>
    /\ Answered(current_answers) # {}
    /\ last_pursued_question_ids = <<4, 5, 6>>

Before == last.before.current_answers

\* C21: every answer the assistant path records in a turn is for a question
\* that had no answer when the turn began, so no existing answer is replaced
\* in a turn, whatever the external call returns.
C21_AssistantNeverOverwrites ==
    AfterTurn =>
        /\ \A k \in DOMAIN last.answers \cap DOMAIN Before : Before[k] = NoneEntry
        /\ \A k \in Answered(Before) : current_answers[k] = Before[k]

\* C22: in every turn the batch resolution is performed iff the pursuit step
\* resolved no question (also when no group is pursued); when the pursuit
\* step resolved a question, the answers of the turn are exactly the ones the
\* pursuit step resolved.
C22_BatchIffPursuitResolvedNone ==
    AfterTurn =>
        /\ last.batch # "not_called" <=> last.pursuit_answers = <<>>
        /\ last.any_answered_in_group <=> last.pursuit_answers # <<>>
        /\ last.pursuit_answers # <<>> =>
              /\ last.answers = last.pursuit_answers
              /\ DOMAIN last.answers \subseteq
                    {last.asked[i] : i \in 1..Len(last.asked)}
        /\ Len(last.before.last_pursued_question_ids) = 0 =>
              last.batch # "not_called"

\* a turn in which the pursuit step resolved a question and left another
\* pursued question unresolved
C22_Witness ==
    /\ AfterTurn
    /\ last.batch = "not_called"
    /\ last.answers # <<>>
    /\ Len(last.asked) > Cardinality(DOMAIN last.answers)

\* C23: in a turn at most one follow-up is generated and at most one
\* counter is incremented, whatever text the follow-up generation returns.
C23_OneFollowupPerTurn ==
    AfterTurn =>
        /\ Len(last.followups) <= 1
        /\ Cardinality({k \in DOMAIN followup_attempts :
                           followup_attempts[k]
                              > Get(last.before.followup_attempts, k, 0)}) <= 1

SeqSet(s) == {s[i] : i \in 1..Len(s)}

\* the pursuit set when the turn began
PursuedBefore == SeqSet(last.before.last_pursued_question_ids)

FollowedUp == {last.followups[i].id : i \in 1..Len(last.followups)}

\* C25: the pursuit step attempts single-question resolution only for pursued
\* questions without an answer. A pursued question that has an answer when
\* the turn begins gets no resolution call, no follow-up, no counter change
\* and no answer from the pursuit step.
C25_PursuitSkipsAnswered ==
    AfterTurn =>
        /\ SeqSet(last.asked) = {k \in PursuedBefore : Before[k] = NoneEntry}
        /\ \A k \in PursuedBefore :
              Before[k] # NoneEntry =>
                 /\ k \notin SeqSet(last.asked)
                 /\ k \notin FollowedUp
                 /\ k \notin DOMAIN last.pursuit_answers
                 /\ k \in DOMAIN last.after_reply.followup_attempts
                       <=> k \in DOMAIN last.before.followup_attempts
                 /\ k \in DOMAIN last.before.followup_attempts =>
                       last.after_reply.followup_attempts[k]
                          = last.before.followup_attempts[k]

\* a turn that began with a pursued question the user had answered directly
C25_Witness ==
    /\ AfterTurn
    /\ \E k \in PursuedBefore : Before[k].source = "user"
    /\ Len(last.asked) > 0
    /\ Len(last.followups) > 0

\* C26: a turn that begins with every question answered makes no external
\* call, records no pursuit set and leaves the store, the pursuit set, the
\* pending follow-up and the counters as they are; the history grows by the
\* user entry and the completion message.
C26_NothingAfterComplete ==
    (AfterTurn /\ AllAnswered(Before)) =>
        /\ last.asked = <<>>
        /\ last.followups = <<>>
        /\ last.batch = "nothing_to_ask"
        /\ last.branch = "complete"
        /\ last.response = CompletionMessage
        /\ current_answers = Before
        /\ last_pursued_question_ids = last.before.last_pursued_question_ids
        /\ pending_followup = last.before.pending_followup
        /\ followup_attempts = last.before.followup_attempts
        /\ Len(conversation_history) = Len(last.before.conversation_history) + 2
        /\ IsPrefix(last.before.conversation_history, conversation_history)
        /\ Roles(SubSeq(conversation_history, Len(conversation_history) - 1,
                        Len(conversation_history))) = <<"user", "assistant">>
        /\ conversation_history[Len(conversation_history)].content = CompletionMessage

\* a turn after the turn that answered the last question
C26_Witness ==
    /\ AfterTurn
    /\ AllAnswered(Before)
    /\ Len(conversation_history) = 4

\* C27: the completion percentage lies between 0 and 100 and is 100 exactly
\* when every question of the bank has an answer.
C27_PercentageInRange ==
    LET pct == get_completion_percentage(current_answers)
    IN  /\ 0 <= pct.num
        /\ pct.num <= 100 * pct.den
        /\ pct.num = 100 * pct.den <=> AllAnswered(current_answers)

\* C30: a follow-up counter changes only in the pursuit step of a turn and
\* only for a question of the pursuit set: it grows by 1 exactly when a
\* follow-up is generated for the question, becomes 0 exactly when
\* single-question resolution resolves the question, and is otherwise as it
\* was, also after a batch resolution, a direct selection and a change of
\* pursuit set. It is never negative.
C30_CounterChanges ==
    /\ \A k \in DOMAIN followup_attempts : followup_attempts[k] >= 0
    /\ last.op = "on_select_callback" =>
          followup_attempts = last.before.followup_attempts
    /\ AfterTurn =>
          LET old == last.before.followup_attempts IN
          /\ followup_attempts = last.after_reply.followup_attempts
          /\ FollowedUp \cup DOMAIN last.pursuit_answers \subseteq PursuedBefore
          /\ DOMAIN followup_attempts
                = DOMAIN old \cup FollowedUp \cup DOMAIN last.pursuit_answers
          /\ \A k \in DOMAIN followup_attempts :
                followup_attempts[k] =
                    IF k \in FollowedUp THEN Get(old, k, 0) + 1
                    ELSE IF k \in DOMAIN last.pursuit_answers THEN 0
                    ELSE old[k]

\* a turn in which one pursued question got a follow-up and another one was
\* resolved, followed by a direct selection
C30_Witness ==
    /\ last.op = "on_select_callback"
    /\ \E k, j \in DOMAIN followup_attempts :
          followup_attempts[k] = 0 /\ followup_attempts[j] = 1

\* C28: for a reply that parses to a mapping, the batch resolution returns
\* exactly the entries whose value is one of A, B, C, D, keyed by the question
\* number: every such entry is kept, whatever the other entries of the reply
\* look like, and nothing else is returned.
C28_BatchFilterPerEntry ==
    (last.op = "analyze_all_unanswered" /\ results.reply.json = "object"
                                        /\ ~results.reply.raises) =>
        LET items == results.reply.items
            good  == {i \in 1..Len(items) :
                        items[i][2] \in {"A", "B", "C", "D"}
                        /\ items[i][1] \in {"1", "2", "13"}}
            Number(key) == CASE key = "1" -> 1 [] key = "2" -> 2 [] key = "13" -> 13
        IN  /\ \A i \in good :
                  /\ Number(items[i][1]) \in DOMAIN results.value
                  /\ results.value[Number(items[i][1])] = items[i][2]
            /\ \A k \in DOMAIN results.value :
                  \E i \in good : Number(items[i][1]) = k

\* C29 as stated: single-question resolution returns a letter only when the
\* reply is exactly one of A, B, C, D, and no answer otherwise.
C29_LetterOnlyForExactReply ==
    last.op = "analyze_single_question" =>
        IF ~results.reply.raises /\ results.reply.text \in {"A", "B", "C", "D"}
        THEN results.value = results.reply.text
        ELSE results.value = None

\* C29, amended: single-question resolution returns a letter only when the
\* reply, with surrounding whitespace removed and case ignored, is exactly
\* one of A, B, C, D, and then returns that letter in upper case; for every
\* other reply (the None sentinel, a letter with extra text, empty text) and
\* for a failed call it returns no answer.
C29_LetterOnlyForLetterReply ==
    last.op = "analyze_single_question" =>
        LET text == results.reply.text
            letter == CASE text \in {"A", "a"}        -> "A"
                        [] text \in {"B", "b", " b\n"} -> "B"
                        [] text = "C"                  -> "C"
                        [] text = "D"                  -> "D"
                        [] OTHER                       -> None
        IN  results.value = IF results.reply.raises THEN None ELSE letter

\* a reply with a lower-case letter between whitespace has given the letter
C29_Witness ==
    /\ last.op = "analyze_single_question"
    /\ results.reply.text = " b\n"
    /\ results.value = "B"

\* C32: in the command-line chat loop every processed user line appends
\* exactly one user entry and exactly one assistant entry to the
\* conversation history, so the history alternates user and assistant
\* entries, as in the web flow.
C32_HistoryAlternates ==
    /\ Len(conversation_history) % 2 = 0
    /\ \A i \in 1..Len(conversation_history) :
          conversation_history[i].role =
              IF i % 2 = 1 THEN "user" ELSE "assistant"

\* C34: the relevance matcher returns exactly the unanswered questions that
\* have a keyword or a context hint occurring in the user text (as a
\* substring, case ignored), each once, with the score 0.7 for every matching
\* keyword plus 0.3 for every matching hint (here in tenths), which is above
\* zero; the result is in order of non-increasing score, no answered question
\* is in it, and the session state is as it was before the call.
C34_RelevantExactlyMatching ==
    last.op = "_get_relevant_questions" =>
        LET value      == results.value
            phrases    == input_lower(results.user_input)
            matches(k) == 7 * Cardinality({w \in keywords[k] : w \in phrases})
                          + 3 * Cardinality({w \in context_hints[k] : w \in phrases})
            matching   == {k \in QuestionIds :
                              current_answers[k] = NoneEntry /\ matches(k) > 0}
        IN  /\ {value[i].question.id : i \in 1..Len(value)} = matching
            /\ Len(value) = Cardinality(matching)
            /\ \A i \in 1..Len(value) :
                  /\ value[i].question = questions[value[i].question.id]
                  /\ value[i].relevance = matches(value[i].question.id)
                  /\ value[i].relevance > 0
                  /\ current_answers[value[i].question.id] = NoneEntry
            /\ \A i \in 1..Len(value) - 1 :
                  value[i].relevance >= value[i + 1].relevance
            /\ Self = last.before

\* the text matches questions 1, 5 and 12; question 5 is answered and left
\* out, and question 12 (a keyword) comes before question 1 (a hint)
C34_Witness ==
    /\ last.op = "_get_relevant_questions"
    /\ results.user_input = "How do you look at people? I feel tired"
    /\ current_answers[5] # NoneEntry
    /\ Len(results.value) = 2
    /\ results.value[1].question.id = 12
    /\ results.value[2].question.id = 1

\* C33: when the message-handling step of a web turn raises, the exception
\* is caught at the turn boundary. The displayed chat ends with the user's
\* message and one assistant message, the apology; the history of the
\* chatbot has recorded the user's message; every entry of the Answer Store
\* is null or a complete record; and the next user message is processed as
\* in any other turn: its turn displays the message and the response that
\* _generate_response returned and appended to the history.
C33_RaiseCaughtAtTurnBoundary ==
    LET n      == Len(results)
        before == last.before
        entry(role, content) == [role |-> role, content |-> content]
    IN  /\ last.op = "except" =>
              /\ n >= 3
              /\ results[n - 1].role = "user"
              /\ results[n] = entry("assistant", error_message)
              /\ conversation_history =
                    Append(before.conversation_history, results[n - 1])
              /\ \A k \in DOMAIN current_answers :
                    current_answers[k] # NoneEntry =>
                        /\ DOMAIN current_answers[k] = {"answer", "source"}
                        /\ current_answers[k].answer \in Letters
                        /\ current_answers[k].source \in {"user", "avika"}
        /\ (/\ last.op = "handle_user_message"
            /\ n >= 5
            /\ results[n - 2] = entry("assistant", error_message)) =>
              /\ results[n - 1].role = "user"
              /\ results[n] = entry("assistant", last.response)
              /\ last.response # error_message
              /\ conversation_history =
                    before.conversation_history \o <<results[n - 1], results[n]>>

\* the first turn has raised, and the turn of the next message has recorded
\* an answer and displayed its response
C33_Witness ==
    /\ last.op = "handle_user_message"
    /\ Len(results) >= 5
    /\ results[Len(results) - 2].content = error_message
    /\ Len(conversation_history) = 3
    /\ last.answers # <<>>

Pursued(q) == q \in SeqSet(last_pursued_question_ids)

\* C31 as stated: no unanswered question is starved of being asked about. In
\* every run in which the user goes on sending messages, each question that
\* stays unanswered is eventually a member of the pursuit set, whatever the
\* extractor resolves or fails to resolve.
C31_NoQuestionStarved ==
    \A q \in QuestionIds :
        [](current_answers[q] = NoneEntry) => <>Pursued(q)

\* C31, amended: a question is starved only behind questions that are never
\* resolved. In every run in which the user goes on sending messages, each
\* question that stays unanswered is eventually a member of the pursuit set,
\* unless from some turn on the pursuit set is not empty, does not hold the
\* question, and none of its questions is ever answered.
C31_StarvedOnlyBehindUnresolved ==
    \A q \in QuestionIds :
        [](current_answers[q] = NoneEntry) =>
            \/ <>Pursued(q)
            \/ <>[](/\ Len(last_pursued_question_ids) > 0
                    /\ ~Pursued(q)
                    /\ \A i \in 1..Len(last_pursued_question_ids) :
                          current_answers[last_pursued_question_ids[i]] = NoneEntry)

\* question 1 was resolved from the batch, the dialogue has moved to the
\* second category and stays there without an answer, and questions 2 and 3
\* wait unanswered outside the pursuit set
C31_Witness ==
    /\ last_pursued_question_ids = <<4, 5, 6>>
    /\ current_answers[1] # NoneEntry
    /\ current_answers[2] = NoneEntry
    /\ current_answers[3] = NoneEntry
    /\ 4 \in DOMAIN followup_attempts
    /\ followup_attempts[4] >= 1
====
